---- MODULE Spec2Model ----
(***************************************************************************)
(* Model of src/preprocess.py: the DICOM preprocessor.                     *)
(*                                                                         *)
(* Strings are sequences of one-character strings, so that strip, replace, *)
(* lower, substring search, slicing and lexicographic comparison are       *)
(* computed.  Floating-point quantities (samples, window centre and width, *)
(* slice location) are fixed-point integers counting 1/Unit; every input   *)
(* of the model is integer-valued, so every intermediate value of the      *)
(* windowing arithmetic is an exact multiple of 1/Unit.                    *)
(***************************************************************************)
EXTENDS Integers, Sequences, FiniteSets, TLC

VARIABLES
    inputRootExists,  \* DICOM_DIR exists on disk
    outputWritable,   \* OUTPUT_DIR can be created / written
    disk,             \* the files below DICOM_DIR, in os.walk order
    dicom_files,      \* main: list of paths (indices into disk)
    i,                \* main: position of the for loop (1-based, next file)
    studies,          \* main: studies[study_uid][series_uid] -> list of records
    patient_info,     \* main: patient block ({} modelled as None)
    skipped,          \* main: damaged counter
    errors,           \* main: error counter
    outputReady,      \* OUTPUT_DIR.mkdir has succeeded
    pngs,             \* PNG files written, in order: [path, src, img]
    metadata,         \* the emitted metadata.json (None before it is written)
    pc,               \* position of main
    call              \* calls of a single function: [fn, args, rets]

vars == <<inputRootExists, outputWritable, disk, dicom_files, i, studies,
          patient_info, skipped, errors, outputReady, pngs, metadata, pc, call>>

----------------------------------------------------------------------------
(* Bounds of the model *)

MaxFiles == 3

MaxFrames == 3

MaxWidth == 6

MaxSample == 6

MaxDescLen == 64

(* Program constants *)

DisplayMax == 255

MaxDirLen == 58

MinFileSize == 1000

HashLen == 8

SeriesPad == 3

SlicePad == 4

(* 1/Unit is the resolution of the fixed-point numbers: np.percentile     *)
(* interpolates in steps of 5/100 = 1/20 and the window is halved.         *)
Unit == 2 * (100 \div 5)

----------------------------------------------------------------------------
(* Values as Python sees them *)

None == [t |-> "None"]

Num(n) == [t |-> "num", v |-> n]

Str(s) == [t |-> "str", v |-> s]

Multi(q) == [t |-> "multi", v |-> q]

Min2(a, b) == IF a <= b THEN a ELSE b

Max2(a, b) == IF a >= b THEN a ELSE b

(* s[:n] *)
Take(s, n) == SubSeq(s, 1, Min2(n, Len(s)))

(* the stable sort of list.sort / sorted: the element at position k is the  *)
(* one with k-1 elements before it, an element being before another when   *)
(* its key is smaller, or equal and it came earlier                        *)
StableSort(s, Less(_, _)) ==
    LET n == Len(s)
        pos(k) == Cardinality({j \in 1..n :
                      \/ Less(s[j], s[k])
                      \/ (~Less(s[k], s[j]) /\ j < k)}) + 1
    IN  [p \in 1..n |-> s[CHOOSE k \in 1..n : pos(k) = p]]

----------------------------------------------------------------------------
(* Characters *)

Alphabet ==
    <<" ", "(", ")", "-", ".", "/", "0", "1", "2", "3", "4", "5", "6", "7",
      "8", "9", ":", "A", "B", "C", "D", "E", "M", "N", "P", "R", "T", "_",
      "a", "b", "c", "d", "e", "f", "g", "i", "k", "l", "m", "n", "o", "p",
      "r", "s", "t", "v", "x", "z">>

(* ord(c), up to an order-preserving renumbering *)
Ord(c) == CHOOSE k \in 1..Len(Alphabet) : Alphabet[k] = c

UpperCase == <<"A", "B", "C", "D", "E", "M", "N", "P", "R", "T">>

LowerCase == <<"a", "b", "c", "d", "e", "m", "n", "p", "r", "t">>

LowerChar(c) ==
    IF \E k \in 1..Len(UpperCase) : UpperCase[k] = c
    THEN LowerCase[CHOOSE k \in 1..Len(UpperCase) : UpperCase[k] = c]
    ELSE c

(* str.lower *)
Lower(s) == [k \in 1..Len(s) |-> LowerChar(s[k])]

(* sub in s *)
Contains(s, sub) ==
    \E k \in 0..(Len(s) - Len(sub)) : SubSeq(s, k + 1, k + Len(sub)) = sub

(* str.replace for a one-character pattern *)
Replace(s, old, new) == [k \in 1..Len(s) |-> IF s[k] = old THEN new ELSE s[k]]

(* str.strip *)
Strip(s) ==
    LET keep == {k \in 1..Len(s) : s[k] # " "}
    IN  IF keep = {} THEN <<>>
        ELSE SubSeq(s, CHOOSE k \in keep : \A j \in keep : k <= j,
                       CHOOSE k \in keep : \A j \in keep : k >= j)

(* a < b for strings *)
StrLess(a, b) ==
    \/ /\ Len(a) < Len(b)
       /\ Take(b, Len(a)) = a
    \/ \E k \in 1..Min2(Len(a), Len(b)) :
          /\ SubSeq(a, 1, k - 1) = SubSeq(b, 1, k - 1)
          /\ Ord(a[k]) < Ord(b[k])

DecDigits == <<"0", "1", "2", "3", "4", "5", "6", "7", "8", "9">>

HexDigits == DecDigits \o <<"a", "b", "c", "d", "e", "f">>

RECURSIVE Digits(_, _)
(* the digits of n >= 0 in the given base, most significant first *)
Digits(n, digs) ==
    IF n < Len(digs) THEN <<digs[n + 1]>>
    ELSE Append(Digits(n \div Len(digs), digs), digs[(n % Len(digs)) + 1])

RECURSIVE Zeros(_)
Zeros(n) == IF n <= 0 THEN <<>> ELSE <<"0">> \o Zeros(n - 1)

(* f"{n:0{w}d}": at least w digits, zero padded on the left *)
ZeroPad(n, w) == LET d == Digits(n, DecDigits) IN Zeros(w - Len(d)) \o d

----------------------------------------------------------------------------
(* Attribute access and the normalizers, lines 48-71 *)

Absent == [t |-> "absent"]

(* getattr(ds, name, default) *)
Getattr(ds, name, default) == IF ds[name] = Absent THEN default ELSE ds[name]

(* hasattr(ds, name) for a plain data element *)
Hasattr(ds, name) == ds[name] # Absent

RECURSIVE ParseDec(_)
ParseDec(s) ==
    IF s = <<>> THEN 0
    ELSE 10 * ParseDec(SubSeq(s, 1, Len(s) - 1)) + (Ord(s[Len(s)]) - Ord("0"))

IsDecimal(s) ==
    /\ s # <<>>
    /\ \A k \in 1..Len(s) : \E d \in 1..Len(DecDigits) : DecDigits[d] = s[k]

safe_str(val) ==
    IF val = None THEN <<>>
    ELSE LET s == Strip(val.v)
         IN  IF s \in {<<"N", "o", "n", "e">>, <<>>} THEN <<>> ELSE s

safe_int(val, default) ==
    CASE val.t = "num" -> val.v \div Unit
      [] val.t = "str" /\ IsDecimal(Strip(val.v)) -> ParseDec(Strip(val.v))
      [] OTHER -> default

safe_float(val, default) ==
    CASE val.t = "num" -> val.v
      [] val.t = "str" /\ IsDecimal(Strip(val.v)) -> ParseDec(Strip(val.v)) * Unit
      [] OTHER -> default

(* float(x): defined for a number and a numeric string, raises otherwise *)
FloatRaises(val) ==
    ~ \/ val.t = "num"
      \/ val.t = "str" /\ IsDecimal(Strip(val.v))

Float(val) == safe_float(val, 0)

(* float(w[0]) if isinstance(w, MultiValue) else float(w), lines 104-105 *)
FirstValue(w) == IF w.t = "multi" THEN w.v[1] ELSE w

FirstValueRaises(w) ==
    IF w.t = "multi" THEN w.v = <<>> \/ FloatRaises(w.v[1]) ELSE FloatRaises(w)

----------------------------------------------------------------------------
(* Arrays: [shape |-> <<...>>, data |-> the samples in C order] *)

RECURSIVE Product(_)
Product(s) == IF s = <<>> THEN 1 ELSE Head(s) * Product(Tail(s))

MapArray(a, F(_)) ==
    [shape |-> a.shape, data |-> [k \in 1..Len(a.data) |-> F(a.data[k])]]

(* a[k] for an array with a leading axis (k is 0-based) *)
Index0(a, k) ==
    LET inner == Tail(a.shape)
        size  == Product(inner)
    IN  [shape |-> inner, data |-> SubSeq(a.data, k * size + 1, (k + 1) * size)]

----------------------------------------------------------------------------
(* Windowing Engine, lines 25-45 *)

(* the two raise statements of apply_windowing *)
WindowRaises(window_center, window_width) ==
    \/ window_width <= 0
    \/ (window_center + window_width \div 2)
         - (window_center - window_width \div 2) <= 0

Clip(x, lo, hi) == Min2(Max2(x, lo), hi)

(* AsUint8 rounding to the nearest integer instead of discarding the fraction *)
AsUint8Rounded(num, den) == ((2 * num + den) \div (2 * den)) % (DisplayMax + 1)

(* astype(np.uint8) of a non-negative float: the fraction is discarded, the *)
(* integer is kept modulo 2^8; num/den is the float being converted        *)
AsUint8(num, den) == (num \div den) % (DisplayMax + 1)

(* one sample of apply_windowing, lines 29-34 *)
WindowSample(x, window_center, window_width) ==
    LET img_min == window_center - window_width \div 2
        img_max == window_center + window_width \div 2
        windowed == Clip(x, img_min, img_max)
    IN  AsUint8((windowed - img_min) * DisplayMax, img_max - img_min)

apply_windowing(pixel_array, window_center, window_width) ==
    LET W(x) == WindowSample(x, window_center, window_width)
    IN  MapArray(pixel_array, W)

(* np.percentile(a, q), linear interpolation, a sorted ascending *)
Percentile(a, q) ==
    LET n == Len(a)
        k == (q * (n - 1)) \div 100
        r == (q * (n - 1)) % 100
    IN  IF r = 0 THEN a[k + 1]
        ELSE a[k + 1] + ((a[k + 2] - a[k + 1]) * r) \div 100

IntLess(a, b) == a < b

get_default_window(pixel_array, modality) ==
    IF modality = <<"C", "T">> THEN <<40 * Unit, 80 * Unit>>
    ELSE LET positive == SelectSeq(pixel_array.data, LAMBDA x : x > 0)
             sorted   == StableSort(positive, IntLess)
             p5  == IF positive # <<>> THEN Percentile(sorted, 5) ELSE 0
             p95 == IF positive # <<>> THEN Percentile(sorted, 95)
                    ELSE DisplayMax * Unit
         IN  <<(p5 + p95) \div 2, Max2(p95 - p5, 1 * Unit)>>

----------------------------------------------------------------------------
(* Frame Selector, lines 111-114 *)

SelectFrame(img_data) ==
    IF Len(img_data.shape) = 3 /\ img_data.shape[1] > 1
    THEN Index0(img_data, img_data.shape[1] \div 2)
    ELSE img_data

----------------------------------------------------------------------------
(* Image Record Builder: process_dicom_file, lines 74-141 *)

(* What process_dicom_file does with a file: it returns (result, err) or an *)
(* exception leaves it.                                                     *)
Return(result, err) == [out |-> "return", result |-> result, err |-> err]

Raise(exc) == [out |-> "raise", exc |-> exc]

ReadErrorPrefix == <<"R", "e", "a", "d", " ", "e", "r", "r", "o", "r", ":", " ">>

NoPixelDataMsg == <<"N", "o", " ", "p", "i", "x", "e", "l", " ", "d", "a", "t", "a">>

PixelDecodePrefix ==
    <<"P", "i", "x", "e", "l", " ", "d", "e", "c", "o", "d", "e", " ",
      "e", "r", "r", "o", "r", ":", " ">>

AllZeroMsg ==
    <<"A", "l", "l", "-", "z", "e", "r", "o", " ", "p", "i", "x", "e", "l", " ",
      "d", "a", "t", "a", " ", "(", "d", "a", "m", "a", "g", "e", "d", ")">>

(* ds.pixel_array.astype(np.float64) *)
AsFloat64(pixel_array) == LET F(x) == x * Unit IN MapArray(pixel_array, F)

(* np.all(pixels == 0) *)
AllZero(pixels) == \A k \in 1..Len(pixels.data) : pixels.data[k] = 0

(* pixels * slope + intercept, line 96 *)
Rescale(pixels, slope, intercept) ==
    LET F(x) == (x * slope) \div Unit + intercept IN MapArray(pixels, F)

(* lines 99-107: <<raises, wc, ww>> *)
ResolveWindow(ds, pixels, modality) ==
    LET wc == Getattr(ds, "WindowCenter", None)
        ww == Getattr(ds, "WindowWidth", None)
    IN  IF wc # None /\ ww # None
        THEN IF FirstValueRaises(wc) \/ FirstValueRaises(ww)
             THEN <<TRUE, 0, 0>>
             ELSE <<FALSE, Float(FirstValue(wc)), Float(FirstValue(ww))>>
        ELSE LET d == get_default_window(pixels, modality)
             IN  <<FALSE, d[1], d[2]>>

(* the metadata dict, lines 116-139 (patientBirthDate, patientSex,          *)
(* institution, referringPhysician, accession and bodyPart are further     *)
(* safe_str(getattr(ds, ..., "")) entries that nothing else reads)         *)
Metadata(ds, modality, wc, ww) ==
    [patientName       |-> safe_str(Getattr(ds, "PatientName", Str(<<>>))),
     patientID         |-> safe_str(Getattr(ds, "PatientID", Str(<<>>))),
     studyDate         |-> safe_str(Getattr(ds, "StudyDate", Str(<<>>))),
     studyTime         |-> safe_str(Getattr(ds, "StudyTime", Str(<<>>))),
     studyDescription  |-> safe_str(Getattr(ds, "StudyDescription", Str(<<>>))),
     studyInstanceUID  |-> safe_str(Getattr(ds, "StudyInstanceUID", Str(<<>>))),
     seriesDescription |-> safe_str(Getattr(ds, "SeriesDescription", Str(<<>>))),
     seriesInstanceUID |-> safe_str(Getattr(ds, "SeriesInstanceUID", Str(<<>>))),
     seriesNumber      |-> safe_int(Getattr(ds, "SeriesNumber", Num(0)), 0),
     instanceNumber    |-> safe_int(Getattr(ds, "InstanceNumber", Num(0)), 0),
     modality          |-> modality,
     rows              |-> safe_int(Getattr(ds, "Rows", Num(0)), 0),
     columns           |-> safe_int(Getattr(ds, "Columns", Num(0)), 0),
     windowCenter      |-> wc,
     windowWidth       |-> ww,
     sliceLocation     |-> safe_float(IF Hasattr(ds, "SliceLocation")
                                      THEN Getattr(ds, "SliceLocation", Num(0))
                                      ELSE Num(0), 0)]

(* lines 93-141, for a file whose samples were decoded and are not all zero *)
BuildRecord(ds, pixels0) ==
    LET slopeV     == Getattr(ds, "RescaleSlope", Num(1 * Unit))
        interceptV == Getattr(ds, "RescaleIntercept", Num(0))
    IN  IF FloatRaises(slopeV) \/ FloatRaises(interceptV)
        THEN Raise("TypeError")
        ELSE
        LET pixels   == Rescale(pixels0, Float(slopeV), Float(interceptV))
            modality == safe_str(Getattr(ds, "Modality", Str(<<>>)))
            w        == ResolveWindow(ds, pixels, modality)
        IN  IF w[1] THEN Raise("TypeError")
            ELSE IF WindowRaises(w[2], w[3]) THEN Raise("ValueError")
            ELSE Return([meta |-> Metadata(ds, modality, w[2], w[3]),
                         img  |-> SelectFrame(apply_windowing(pixels, w[2], w[3]))],
                        None)

(* A file on disk is described by what pydicom makes of it:                *)
(*   readExc      the message of the exception dcmread raises, or None     *)
(*   pixelAccess  what evaluating ds.pixel_array in hasattr does:          *)
(*                "AttributeError" (hasattr answers False), "raises" (any  *)
(*                other exception, which hasattr lets through), "ok"       *)
(*   astypeExc    the message of the exception line 85 raises, or None     *)
process_dicom_file(f) ==
    IF f.readExc # None
    THEN Return(None, ReadErrorPrefix \o f.readExc.v)
    ELSE IF f.pixelAccess = "raises" THEN Raise("RuntimeError")
    ELSE IF f.pixelAccess = "AttributeError" THEN Return(None, NoPixelDataMsg)
    ELSE IF f.astypeExc # None
    THEN Return(None, PixelDecodePrefix \o f.astypeExc.v)
    ELSE LET pixels == AsFloat64(f.pixel_array)
         IN  IF AllZero(pixels) THEN Return(None, AllZeroMsg)
             ELSE BuildRecord(f, pixels)

----------------------------------------------------------------------------
(* main: the per-file loop, lines 183-212 *)

DamagedWord == <<"d", "a", "m", "a", "g", "e", "d">>

(* Tally with the else branch lost: a damaged file counts as an error too *)
TallyBoth(err, nSkipped, nErrors) ==
    IF Contains(Lower(err), DamagedWord)
    THEN <<nSkipped + 1, nErrors + 1>>
    ELSE <<nSkipped, nErrors + 1>>

(* lines 195-198: <<skipped, errors>> after a file that returned err *)
Tally(err, nSkipped, nErrors) ==
    IF Contains(Lower(err), DamagedWord)
    THEN <<nSkipped + 1, nErrors>>
    ELSE <<nSkipped, nErrors + 1>>

(* the position of key uid in an insertion-ordered dict, 0 when absent *)
KeyIndex(dict, uid) ==
    IF \E k \in 1..Len(dict) : dict[k].uid = uid
    THEN CHOOSE k \in 1..Len(dict) : dict[k].uid = uid
    ELSE 0

(* AppendToSeries assigning the list instead of appending to it *)
AssignToSeries(series_dict, series_uid, rec) ==
    LET k == KeyIndex(series_dict, series_uid)
    IN  IF k = 0
        THEN Append(series_dict, [uid |-> series_uid, images |-> <<rec>>])
        ELSE [series_dict EXCEPT ![k].images = <<rec>>]

(* series_dict[series_uid].append(rec), the list created when missing *)
AppendToSeries(series_dict, series_uid, rec) ==
    LET k == KeyIndex(series_dict, series_uid)
    IN  IF k = 0
        THEN Append(series_dict, [uid |-> series_uid, images |-> <<rec>>])
        ELSE [series_dict EXCEPT ![k].images = Append(@, rec)]

(* studies[study_uid][series_uid].append((meta, img_data)), lines 201-204;  *)
(* rec.src is the identity of the tuple: the path of the file it came from *)
AddRecord(dict, rec) ==
    LET study_uid  == rec.meta.studyInstanceUID
        series_uid == rec.meta.seriesInstanceUID
        k == KeyIndex(dict, study_uid)
    IN  IF k = 0
        THEN Append(dict, [uid    |-> study_uid,
                           series |-> AppendToSeries(<<>>, series_uid, rec)])
        ELSE [dict EXCEPT ![k].series = AppendToSeries(@, series_uid, rec)]

(* lines 206-212 *)
PatientInfo(current, meta) ==
    IF current = None
    THEN [name |-> meta.patientName, id |-> meta.patientID]
    ELSE current

----------------------------------------------------------------------------
(* main: organizing and the index, lines 217-293 *)

(* hashlib.md5(study_uid.encode()).hexdigest()[:8].  MD5 itself is not     *)
(* computed: the digest is a fixed function of the characters of the UID,  *)
(* wide enough to be injective on the UIDs of the model.                   *)
RECURSIVE Digest(_)
Digest(s) ==
    IF s = <<>> THEN 7
    ELSE (Digest(SubSeq(s, 1, Len(s) - 1)) * 131 + Ord(s[Len(s)])) % 1048576

Md5Hex8(study_uid) ==
    LET d == Digits(Digest(study_uid) * 977 + 268435456, HexDigits)
    IN  Take([k \in 1..Len(d) |-> d[Len(d) + 1 - k]], HashLen)

(* line 227 *)
StudyDirName(modality, study_desc, uid_suffix) ==
    Take(Replace(Replace(modality \o <<"_">> \o study_desc \o <<"_">> \o uid_suffix,
                         " ", "_"), "/", "-"),
         MaxDirLen)

SeriesDirName(series_idx) ==
    <<"s", "e", "r", "i", "e", "s", "_">> \o ZeroPad(series_idx + 1, SeriesPad)

PngName(img_idx) ==
    <<"s", "l", "i", "c", "e", "_">> \o ZeroPad(img_idx + 1, SlicePad)
        \o <<".", "p", "n", "g">>

(* key of line 241 *)
SeriesLess(a, b) == a.images[1].meta.seriesNumber < b.images[1].meta.seriesNumber

(* key of line 245 *)
ImageLess(a, b) ==
    \/ a.meta.instanceNumber < b.meta.instanceNumber
    \/ /\ a.meta.instanceNumber = b.meta.instanceNumber
       /\ a.meta.sliceLocation < b.meta.sliceLocation

(* key of line 275 *)
StudyLess(a, b) ==
    \/ StrLess(a.date, b.date)
    \/ a.date = b.date /\ StrLess(a.time, b.time)

(* the sort of line 245 with the tie-break lost: by instance number only *)
SortImagesByInstanceOnly(images) ==
    LET Less(a, b) == a.meta.instanceNumber < b.meta.instanceNumber
    IN  StableSort(images, Less)

(* images.sort(...), line 245 *)
SortImages(images) == StableSort(images, ImageLess)

(* lines 247-267 for one series: the PNGs written and the series_info;     *)
(* series_idx and img_idx are 0-based as in enumerate                      *)
OrganizeSeries(study_dir_name, series_idx, series) ==
    LET images      == SortImages(series.images)
        series_meta == images[1].meta
        path(k)     == study_dir_name \o <<"/">> \o SeriesDirName(series_idx)
                         \o <<"/">> \o PngName(k - 1)
    IN  [writes |-> [k \in 1..Len(images) |->
                        [path |-> path(k), src |-> images[k].src,
                         img |-> images[k].img]],
         sorted |-> [series EXCEPT !.images = images],
         info   |-> [uid         |-> series.uid,
                     number      |-> series_meta.seriesNumber,
                     description |-> series_meta.seriesDescription,
                     sliceCount  |-> Len(images),
                     rows        |-> series_meta.rows,
                     columns     |-> series_meta.columns,
                     images      |-> [k \in 1..Len(images) |-> path(k)]]]

RECURSIVE Flatten(_)
Flatten(ss) == IF ss = <<>> THEN <<>> ELSE Head(ss) \o Flatten(Tail(ss))

(* lines 221-272 for one study *)
OrganizeStudy(study) ==
    LET first_meta     == study.series[1].images[1].meta
        modality       == first_meta.modality
        study_desc     == first_meta.studyDescription
        uid_suffix     == Md5Hex8(study.uid)
        study_dir_name == StudyDirName(modality, study_desc, uid_suffix)
        series_list    == StableSort(study.series, SeriesLess)
        done == [k \in 1..Len(series_list) |->
                    OrganizeSeries(study_dir_name, k - 1, series_list[k])]
        sortedOf(uid) == done[CHOOSE k \in 1..Len(done) : done[k].sorted.uid = uid].sorted
    IN  [writes |-> Flatten([k \in 1..Len(done) |-> done[k].writes]),
         \* images.sort sorts the lists held by the studies dict in place
         sorted |-> [study EXCEPT !.series =
                        [k \in 1..Len(study.series) |-> sortedOf(study.series[k].uid)]],
         info   |-> [uid         |-> study.uid,
                     date        |-> first_meta.studyDate,
                     time        |-> first_meta.studyTime,
                     description |-> study_desc,
                     modality    |-> modality,
                     series      |-> [k \in 1..Len(done) |-> done[k].info]]]

(* lines 220-275 *)
AllStudies(dict) ==
    StableSort([k \in 1..Len(dict) |-> OrganizeStudy(dict[k]).info], StudyLess)

(* lines 285-290 *)
RecoveryInfo(nFiles, nSkipped, nErrors) ==
    [totalFiles   |-> nFiles,
     intactFiles  |-> nFiles - nSkipped - nErrors,
     damagedFiles |-> nSkipped,
     errorFiles   |-> nErrors]

----------------------------------------------------------------------------
(* The files of the model *)

Chars1 == <<"1">>

Chars2 == <<"2">>

Chars3 == <<"3">>

(* an intact single-frame MR slice without window attributes *)
BaseFile ==
    [size              |-> 2 * MinFileSize,
     readExc           |-> None,
     pixelAccess       |-> "ok",
     astypeExc         |-> None,
     pixel_array       |-> [shape |-> <<1, 2>>, data |-> <<1, 3>>],
     RescaleSlope      |-> Absent,
     RescaleIntercept  |-> Absent,
     WindowCenter      |-> Absent,
     WindowWidth       |-> Absent,
     Modality          |-> Str(<<"M", "R">>),
     PatientName       |-> Str(<<"P", "a", "t">>),
     PatientID         |-> Str(<<"7">>),
     StudyDate         |-> Str(<<"2", "0", "2", "0">>),
     StudyTime         |-> Str(<<"1", "0">>),
     StudyDescription  |-> Str(<<"B", "r", "a", "i", "n", " ", "M", "R">>),
     StudyInstanceUID  |-> Str(Chars1),
     SeriesDescription |-> Str(<<"T", "1">>),
     SeriesInstanceUID |-> Str(Chars1),
     SeriesNumber      |-> Num(2 * Unit),
     InstanceNumber    |-> Num(1 * Unit),
     Rows              |-> Num(1 * Unit),
     Columns           |-> Num(2 * Unit),
     SliceLocation     |-> Num(0)]

(* files that process_dicom_file turns into a record *)
OkFiles ==
    {BaseFile,
     [BaseFile EXCEPT !.SliceLocation = Num(5 * Unit),
                      !.pixel_array = [shape |-> <<3, 1, 2>>,
                                       data |-> <<0, 1, 2, 3, 4, 5>>]],
     \* a second series of the same study, with a smaller series number
     [BaseFile EXCEPT !.SeriesInstanceUID = Str(Chars2),
                      !.SeriesNumber = Num(1 * Unit),
                      !.PatientName = Str(<<"N", "o", "n", "e">>)],
     \* a single frame stored with a frame axis
     [BaseFile EXCEPT !.SeriesInstanceUID = Str(Chars2),
                      !.SeriesNumber = Absent,
                      !.InstanceNumber = Str(<<"2", " ">>),
                      !.pixel_array = [shape |-> <<1, 1, 2>>, data |-> <<2, 0>>]],
     \* an earlier CT study with an explicit, multi-valued window
     [BaseFile EXCEPT !.StudyInstanceUID = Str(Chars2),
                      !.Modality = Str(<<"C", "T">>),
                      !.StudyDate = Str(<<"2", "0", "1", "9">>),
                      !.StudyDescription = Str(<<"H", "e", "a", "d", "/", "C", "T">>),
                      !.RescaleIntercept = Num((0 - 1) * Unit),
                      !.WindowCenter = Multi(<<Num(2 * Unit), Num(9 * Unit)>>),
                      !.WindowWidth = Num(4 * Unit)],
     \* a third study with the date and time of the first, and no description
     [BaseFile EXCEPT !.StudyInstanceUID = Str(Chars3),
                      !.StudyDescription = Absent,
                      !.SliceLocation = Absent]}

(* files that process_dicom_file does not turn into a record *)
FailedFiles ==
    {[BaseFile EXCEPT !.readExc = Str(<<"/", "D", "a", "m", "a", "g", "e", "d",
                                        "/", "1">>)],
     [BaseFile EXCEPT !.pixelAccess = "AttributeError"],
     [BaseFile EXCEPT !.pixel_array = [shape |-> <<1, 2>>, data |-> <<0, 0>>]],
     [BaseFile EXCEPT !.WindowCenter = Num(1 * Unit), !.WindowWidth = Num(0)]}

TinyFiles == {[BaseFile EXCEPT !.size = MinFileSize]}

FileCatalog == OkFiles \cup FailedFiles \cup TinyFiles

----------------------------------------------------------------------------
(* main as a state machine *)

Idle ==
    /\ inputRootExists = FALSE
    /\ outputWritable = FALSE
    /\ disk = <<>>
    /\ dicom_files = <<>>
    /\ i = 0
    /\ studies = <<>>
    /\ patient_info = None
    /\ skipped = 0
    /\ errors = 0
    /\ outputReady = FALSE
    /\ pngs = <<>>
    /\ metadata = None
    /\ pc = "idle"

Init ==
    /\ inputRootExists \in BOOLEAN
    /\ outputWritable \in BOOLEAN
    /\ disk \in UNION {[1..n -> FileCatalog] : n \in 0..MaxFiles}
    /\ inputRootExists = FALSE => disk = <<>>
    /\ dicom_files = <<>>
    /\ i = 0
    /\ studies = <<>>
    /\ patient_info = None
    /\ skipped = 0
    /\ errors = 0
    /\ outputReady = FALSE
    /\ pngs = <<>>
    /\ metadata = None
    /\ pc = "walk"
    /\ call = None

(* lines 173-181: os.walk yields nothing for a directory that is missing *)
Walk ==
    /\ pc = "walk"
    /\ dicom_files' = IF inputRootExists
                      THEN SelectSeq([k \in 1..Len(disk) |-> k],
                                     LAMBDA k : disk[k].size > MinFileSize)
                      ELSE <<>>
    /\ i' = 1
    /\ pc' = "loop"
    /\ UNCHANGED <<inputRootExists, outputWritable, disk, studies, patient_info,
                   skipped, errors, outputReady, pngs, metadata, call>>

InLoop == pc = "loop" /\ i <= Len(dicom_files)

Outcome == process_dicom_file(disk[dicom_files[i]])

(* lines 193-199: the file returned an error *)
FileSkipped ==
    /\ InLoop
    /\ Outcome.out = "return"
    /\ Outcome.err # None
    /\ skipped' = Tally(Outcome.err, skipped, errors)[1]
    /\ errors' = Tally(Outcome.err, skipped, errors)[2]
    /\ i' = i + 1
    /\ UNCHANGED <<inputRootExists, outputWritable, disk, dicom_files, studies,
                   patient_info, outputReady, pngs, metadata, pc, call>>

(* lines 193, 201-212: the file returned a record *)
FileAdded ==
    /\ InLoop
    /\ Outcome.out = "return"
    /\ Outcome.err = None
    /\ studies' = AddRecord(studies, [src  |-> dicom_files[i],
                                      meta |-> Outcome.result.meta,
                                      img  |-> Outcome.result.img])
    /\ patient_info' = PatientInfo(patient_info, Outcome.result.meta)
    /\ i' = i + 1
    /\ UNCHANGED <<inputRootExists, outputWritable, disk, dicom_files, skipped,
                   errors, outputReady, pngs, metadata, pc, call>>

(* line 193: an exception leaves process_dicom_file; main has no handler *)
FileRaised ==
    /\ InLoop
    /\ Outcome.out = "raise"
    /\ pc' = "crashed"
    /\ UNCHANGED <<inputRootExists, outputWritable, disk, dicom_files, i, studies,
                   patient_info, skipped, errors, outputReady, pngs, metadata, call>>

LoopDone == pc = "loop" /\ i > Len(dicom_files)

(* line 218: OUTPUT_DIR.mkdir raises *)
MkdirFailed ==
    /\ LoopDone
    /\ ~outputWritable
    /\ pc' = "crashed"
    /\ UNCHANGED <<inputRootExists, outputWritable, disk, dicom_files, i, studies,
                   patient_info, skipped, errors, outputReady, pngs, metadata, call>>

AllWrites == Flatten([k \in 1..Len(studies) |-> OrganizeStudy(studies[k]).writes])

(* Image.fromarray is given a two-dimensional array *)
Is2D(img) == Len(img.shape) = 2

(* the PNGs written before the first array that Image.fromarray refuses *)
WritesBeforeRefusal ==
    LET bad == {k \in 1..Len(AllWrites) : ~Is2D(AllWrites[k].img)}
    IN  SubSeq(AllWrites, 1, (CHOOSE k \in bad : \A j \in bad : k <= j) - 1)

(* line 255: Image.fromarray raises.  What it does with an array that keeps *)
(* a frame axis depends on the array's last axis (it is read as a channel  *)
(* axis): it either raises or saves, so both outcomes are possible.        *)
SaveFailed ==
    /\ LoopDone
    /\ outputWritable
    /\ \E k \in 1..Len(AllWrites) : ~Is2D(AllWrites[k].img)
    /\ outputReady' = TRUE
    /\ pngs' = WritesBeforeRefusal
    /\ pc' = "crashed"
    /\ UNCHANGED <<inputRootExists, outputWritable, disk, dicom_files, i, studies,
                   patient_info, skipped, errors, metadata, call>>

(* lines 217-301 *)
Organize ==
    /\ LoopDone
    /\ outputWritable
    /\ outputReady' = TRUE
    /\ studies' = [k \in 1..Len(studies) |-> OrganizeStudy(studies[k]).sorted]
    /\ pngs' = AllWrites
    /\ metadata' = [patient      |-> patient_info,
                    studies      |-> AllStudies(studies),
                    recoveryInfo |-> RecoveryInfo(Len(dicom_files), skipped, errors)]
    /\ pc' = "done"
    /\ UNCHANGED <<inputRootExists, outputWritable, disk, dicom_files, i,
                   patient_info, skipped, errors, call>>

Next ==
    \/ Walk
    \/ FileSkipped
    \/ FileAdded
    \/ FileRaised
    \/ MkdirFailed
    \/ SaveFailed
    \/ Organize

Spec == Init /\ [][Next]_vars

----------------------------------------------------------------------------
(* Single functions, called on inputs drawn from bounded sets.  call.args  *)
(* lists the arguments of the invocations to make, call.rets the results   *)
(* of those made so far.                                                   *)

Value(x) == [out |-> "return", value |-> x]

Invoked == Len(call.rets)

Pending == pc = "idle" /\ Invoked < Len(call.args)

NextArgs == call.args[Invoked + 1]

Half == Unit \div 2

WindowInputs ==
    [pixel_array   : {[shape |-> <<1, 2>>, data |-> <<a * Half, b * Half>>] :
                         a, b \in (0 - MaxSample)..MaxSample},
     window_center : {c * Half : c \in (0 - 3)..3},
     window_width  : {w * Half : w \in (0 - 1)..MaxWidth}]

InitWindow ==
    /\ Idle
    /\ \E a \in WindowInputs :
          call = [fn |-> "apply_windowing", args |-> <<a>>, rets |-> <<>>]

CallApplyWindowing ==
    /\ Pending
    /\ call.fn = "apply_windowing"
    /\ call' = [call EXCEPT !.rets = Append(@,
                  IF WindowRaises(NextArgs.window_center, NextArgs.window_width)
                  THEN Raise("ValueError")
                  ELSE Value(apply_windowing(NextArgs.pixel_array,
                                             NextArgs.window_center,
                                             NextArgs.window_width)))]
    /\ UNCHANGED <<inputRootExists, outputWritable, disk, dicom_files, i, studies,
                   patient_info, skipped, errors, outputReady, pngs, metadata, pc>>

SpecWindow == InitWindow /\ [][CallApplyWindowing]_vars

(* sample arrays: two-dimensional, or with a leading frame axis *)
Shapes == {<<1, 2>>} \cup {<<n, 1, 2>> : n \in 1..MaxFrames}

Arrays ==
    UNION {{[shape |-> sh, data |-> [k \in 1..Product(sh) |-> 0]],
            [shape |-> sh, data |-> [k \in 1..Product(sh) |-> k - 1]],
            [shape |-> sh, data |-> [k \in 1..Product(sh) |-> 10 - k]]} :
           sh \in Shapes}

FileInputs ==
    {[BaseFile EXCEPT !.readExc = r, !.pixelAccess = p, !.astypeExc = e] :
        r \in {None, Str(<<"E", "O", "F">>),
               Str(<<"/", "D", "a", "m", "a", "g", "e", "d", "/", "1">>)},
        p \in {"ok", "AttributeError", "raises"},
        e \in {None, Str(<<"b", "a", "d">>), Str(<<"d", "a", "m", "a", "g", "e", "d">>)}}
    \cup
    {[BaseFile EXCEPT !.pixel_array = a, !.WindowCenter = wc, !.WindowWidth = ww,
                      !.Modality = m, !.RescaleSlope = s] :
        a \in Arrays,
        wc \in {Absent, None, Num(2 * Unit), Multi(<<Num(3 * Unit), Num(1 * Unit)>>)},
        ww \in {Absent, Num(0), Num((0 - 2) * Unit), Num(4 * Unit),
                Str(<<"x">>)},
        m \in {Absent, Str(<<"C", "T">>), Str(<<" ", "M", "R">>)},
        s \in {Absent, None, Num(2 * Unit)}}

InitFile ==
    /\ Idle
    /\ \E f \in FileInputs :
          call = [fn |-> "process_dicom_file", args |-> <<f>>, rets |-> <<>>]

CallProcessDicomFile ==
    /\ Pending
    /\ call.fn = "process_dicom_file"
    /\ call' = [call EXCEPT !.rets = Append(@, process_dicom_file(NextArgs))]
    /\ UNCHANGED <<inputRootExists, outputWritable, disk, dicom_files, i, studies,
                   patient_info, skipped, errors, outputReady, pngs, metadata, pc>>

SpecFile == InitFile /\ [][CallProcessDicomFile]_vars

(* lines 223-227: the directory name of a study, from its UID and the     *)
(* modality and description of its first record                            *)
StudyDirNameOf(study_uid, modality, study_desc) ==
    StudyDirName(modality, study_desc, Md5Hex8(study_uid))

Repeat(c, n) == [k \in 1..n |-> c]

Descriptions ==
    {Repeat(c, n) : c \in {"a", " ", "/"},
                    n \in {0, 1, 2, MaxDirLen - 12, MaxDirLen - 11, MaxDirLen - 5,
                           MaxDirLen - 4, MaxDescLen}}
    \cup {<<"H", "e", "a", "d", " ", "C", "T", "/", "M", "R">>}

DirInputs ==
    [study_uid  : {Chars1, Chars2, <<"1", ".", "2">>},
     modality   : {<<"C", "T">>, <<"M", "R">>},
     study_desc : Descriptions]

InitDir ==
    /\ Idle
    /\ \E a, b \in DirInputs :
          call = [fn |-> "study_dir_name", args |-> <<a, b>>, rets |-> <<>>]

CallStudyDirName ==
    /\ Pending
    /\ call.fn = "study_dir_name"
    /\ call' = [call EXCEPT !.rets = Append(@,
                  Value(StudyDirNameOf(NextArgs.study_uid, NextArgs.modality,
                                       NextArgs.study_desc)))]
    /\ UNCHANGED <<inputRootExists, outputWritable, disk, dicom_files, i, studies,
                   patient_info, skipped, errors, outputReady, pngs, metadata, pc>>

SpecDir == InitDir /\ [][CallStudyDirName]_vars

----------------------------------------------------------------------------
(* Properties of the run *)

(* the files the loop has been through *)
Visited == {k \in 1..Len(dicom_files) : k < i}

FileAt(k) == disk[dicom_files[k]]

(* the pipeline of the file ended as DamagedAllZero: its samples were      *)
(* decoded and every one of them is zero                                   *)
DamagedAllZero(f) ==
    /\ f.readExc = None
    /\ f.pixelAccess = "ok"
    /\ f.astypeExc = None
    /\ \A k \in 1..Len(f.pixel_array.data) : f.pixel_array.data[k] = 0

(* the pipeline of the file ended as ReadError, NoPixelData or PixelDecodeError *)
OtherFailure(f) ==
    \/ f.readExc # None
    \/ f.readExc = None /\ f.pixelAccess = "AttributeError"
    \/ f.readExc = None /\ f.pixelAccess = "ok" /\ f.astypeExc # None

(* C1: a failure inside one file's pipeline never aborts the run: the main *)
(* loop is never left by an exception while files remain to be processed   *)
(* (the file is recorded as an error and the loop goes on to the index).   *)
C1_FileFailureNeverAborts ==
    ~(pc = "crashed" /\ i <= Len(dicom_files))

(* C4: no file is passed to process_dicom_file before the output directory *)
(* has been established as writable and the input root as present.         *)
C4_EnvironmentCheckedFirst ==
    (pc \in {"loop", "done", "crashed"} /\ Len(dicom_files) > 0 /\ (i > 1 \/ pc = "crashed"))
        => (outputReady /\ inputRootExists)

(* C5: a file is tallied as damaged if and only if its pipeline failed as  *)
(* DamagedAllZero; every ReadError, NoPixelData and PixelDecodeError,      *)
(* whatever its message, is tallied as an error.                           *)
C5_DamagedIffAllZero ==
    pc \in {"loop", "done"} =>
        /\ skipped = Cardinality({k \in Visited : DamagedAllZero(FileAt(k))})
        /\ errors = Cardinality({k \in Visited : OtherFailure(FileAt(k))})

(* C6: in the recoveryInfo of every emitted index, totalFiles equals       *)
(* intactFiles + damagedFiles + errorFiles, and the four counts are        *)
(* non-negative.                                                           *)
C6_RecoveryStatsAddUp ==
    metadata # None =>
        LET r == metadata.recoveryInfo
        IN  /\ r.totalFiles = r.intactFiles + r.damagedFiles + r.errorFiles
            /\ r.totalFiles >= 0
            /\ r.intactFiles >= 0
            /\ r.damagedFiles >= 0
            /\ r.errorFiles >= 0

(* an index was emitted after a success, a damaged file and an error *)
C6_Witness ==
    /\ metadata # None
    /\ metadata.recoveryInfo.intactFiles > 0
    /\ metadata.recoveryInfo.damagedFiles > 0
    /\ metadata.recoveryInfo.errorFiles > 0

(* the series of the accumulated dict that a series_info of the index describes *)
SeriesOf(study_uid, series_uid) ==
    LET st == studies[KeyIndex(studies, study_uid)]
    IN  st.series[KeyIndex(st.series, series_uid)]

Slash(path) == {k \in 1..Len(path) : path[k] = "/"}

(* the file name of a relative image path: what follows its last "/" *)
FileName(path) ==
    SubSeq(path, (CHOOSE k \in Slash(path) : \A j \in Slash(path) : j <= k) + 1,
           Len(path))

(* name is slice_dddd.png with dddd the four digits of k *)
IsSliceName(name, k) ==
    /\ Len(name) = 14
    /\ SubSeq(name, 1, 6) = <<"s", "l", "i", "c", "e", "_">>
    /\ SubSeq(name, 11, 14) = <<".", "p", "n", "g">>
    /\ IsDecimal(SubSeq(name, 7, 10))
    /\ ParseDec(SubSeq(name, 7, 10)) = k

(* C7: within every series of the emitted index the images are in          *)
(* ascending order of (instanceNumber, sliceLocation), the image written   *)
(* as slice_{k}.png (1-based, 4 digits) is the k-th record in that order,  *)
(* and the ordinals run from 1 to sliceCount.                              *)
C7_SlicesInSortOrder ==
    pc = "done" =>
        \A a \in 1..Len(metadata.studies) :
            \A b \in 1..Len(metadata.studies[a].series) :
                LET info == metadata.studies[a].series[b]
                    recs == SeriesOf(metadata.studies[a].uid, info.uid).images
                IN  /\ Len(info.images) = info.sliceCount
                    /\ Len(recs) = info.sliceCount
                    /\ \A j, k \in 1..Len(recs) :
                          j < k =>
                            \/ recs[j].meta.instanceNumber < recs[k].meta.instanceNumber
                            \/ /\ recs[j].meta.instanceNumber = recs[k].meta.instanceNumber
                               /\ recs[j].meta.sliceLocation <= recs[k].meta.sliceLocation
                    /\ \A k \in 1..Len(info.images) :
                          /\ IsSliceName(FileName(info.images[k]), k)
                          /\ \E w \in 1..Len(pngs) :
                                /\ pngs[w].path = info.images[k]
                                /\ pngs[w].src = recs[k].src
                                /\ pngs[w].img = recs[k].img

(* an index with a series whose records arrived out of order, two of them  *)
(* with the same instance number                                           *)
C7_Witness ==
    /\ pc = "done"
    /\ \E a \in 1..Len(studies) : \E b \in 1..Len(studies[a].series) :
          LET recs == studies[a].series[b].images
          IN  \E j, k \in 1..Len(recs) :
                /\ j < k
                /\ recs[j].src > recs[k].src
                /\ recs[j].meta.instanceNumber = recs[k].meta.instanceNumber
                /\ recs[j].meta.sliceLocation < recs[k].meta.sliceLocation

(* the files of the run that process_dicom_file turned into a record *)
Succeeded == {k \in 1..Len(dicom_files) : process_dicom_file(FileAt(k)).err = None}

(* the places <<study, series, image>> of the index *)
Places ==
    {p \in (1..Len(dicom_files)) \X (1..Len(dicom_files)) \X (1..Len(dicom_files)) :
        /\ p[1] <= Len(metadata.studies)
        /\ p[2] <= Len(metadata.studies[p[1]].series)
        /\ p[3] <= Len(metadata.studies[p[1]].series[p[2]].images)}

(* the path of the source file whose record is at a place of the index *)
SourceAt(p) ==
    LET st == metadata.studies[p[1]]
    IN  SeriesOf(st.uid, st.series[p[2]].uid).images[p[3]].src

RECURSIVE Sum(_)
Sum(s) == IF s = <<>> THEN 0 ELSE Head(s) + Sum(Tail(s))

(* C10: after the run every successfully processed file is at exactly one  *)
(* place of the index, in the study and series keyed by its UIDs, no       *)
(* failed file is anywhere, and the slice counts add up to intactFiles.    *)
C10_RecordsConserved ==
    pc = "done" =>
        /\ \A k \in Succeeded :
              /\ Cardinality({p \in Places : SourceAt(p) = dicom_files[k]}) = 1
              /\ \A p \in Places :
                    SourceAt(p) = dicom_files[k] =>
                      LET meta == process_dicom_file(FileAt(k)).result.meta
                      IN  /\ metadata.studies[p[1]].uid = meta.studyInstanceUID
                          /\ metadata.studies[p[1]].series[p[2]].uid
                                = meta.seriesInstanceUID
        /\ \A p \in Places : \E k \in Succeeded : SourceAt(p) = dicom_files[k]
        /\ \A a, b \in 1..Len(metadata.studies) :
              metadata.studies[a].uid = metadata.studies[b].uid => a = b
        /\ \A a \in 1..Len(metadata.studies) :
              \A b, c \in 1..Len(metadata.studies[a].series) :
                 metadata.studies[a].series[b].uid = metadata.studies[a].series[c].uid
                    => b = c
        /\ Sum([a \in 1..Len(metadata.studies) |->
                  Sum([b \in 1..Len(metadata.studies[a].series) |->
                         metadata.studies[a].series[b].sliceCount])])
              = metadata.recoveryInfo.intactFiles

(* an index of two records in one study, emitted by a run in which a file  *)
(* failed                                                                  *)
C10_Witness ==
    /\ pc = "done"
    /\ \E a \in 1..Len(metadata.studies) :
          Sum([b \in 1..Len(metadata.studies[a].series) |->
                 metadata.studies[a].series[b].sliceCount]) >= 2
    /\ metadata.recoveryInfo.intactFiles < metadata.recoveryInfo.totalFiles

(* the studies dict the loop of lines 189-212 builds when the files arrive *)
(* in the given order                                                      *)
RECURSIVE Accumulate(_)
Accumulate(order) ==
    IF order = <<>> THEN <<>>
    ELSE LET before == Accumulate(SubSeq(order, 1, Len(order) - 1))
             path   == order[Len(order)]
             out    == process_dicom_file(disk[path])
         IN  IF out.err # None THEN before
             ELSE AddRecord(before, [src  |-> path,
                                     meta |-> out.result.meta,
                                     img  |-> out.result.img])

(* the aggregate structure of an index: its studies in order, their series *)
(* in order, and the source file of each image in order; all_studies is    *)
(* the "studies" array of the index and dict the studies dict after the    *)
(* sorts of line 245                                                       *)
Structure(all_studies, dict) ==
    [a \in 1..Len(all_studies) |->
        [uid    |-> all_studies[a].uid,
         series |-> [b \in 1..Len(all_studies[a].series) |->
            LET st == dict[KeyIndex(dict, all_studies[a].uid)]
                se == st.series[KeyIndex(st.series, all_studies[a].series[b].uid)]
            IN  [uid     |-> se.uid,
                 members |-> [k \in 1..Len(se.images) |-> se.images[k].src]]]]]

(* the aggregate structure main emits when the files arrive in the given order *)
StructureFor(order) ==
    LET dict == Accumulate(order)
    IN  Structure(AllStudies(dict),
                  [k \in 1..Len(dict) |-> OrganizeStudy(dict[k]).sorted])

Orders(s) ==
    {[k \in 1..Len(s) |-> s[f[k]]] :
        f \in {g \in [1..Len(s) -> 1..Len(s)] :
                 \A j, k \in 1..Len(s) : g[j] = g[k] => j = k}}

(* C3: the aggregate structure is independent of the order in which the    *)
(* files are processed: the emitted index has the grouping, the order of   *)
(* studies, of series and of images that any other arrival order of the    *)
(* same files gives.                                                       *)
C3_OrderIndependent ==
    pc = "done" =>
        \A order \in Orders(dicom_files) :
            StructureFor(order) = Structure(metadata.studies, studies)

----------------------------------------------------------------------------
(* Properties of the single functions *)

Returned(k) == k <= Invoked /\ call.rets[k].out = "return"

Abs(x) == IF x < 0 THEN 0 - x ELSE x

(* twice the distance of sample k of the call's array, clipped to the      *)
(* window, from the lower end of the window                                *)
ClippedOffset2(k) ==
    LET a   == call.args[1]
        lo2 == 2 * a.window_center - a.window_width
        hi2 == 2 * a.window_center + a.window_width
        s2  == 2 * a.pixel_array.data[k]
    IN  (IF s2 < lo2 THEN lo2 ELSE IF s2 > hi2 THEN hi2 ELSE s2) - lo2

Width2 == 2 * call.args[1].window_width

WindowedSamples == 1..Len(call.args[1].pixel_array.data)

(* C8 as stated: for width > 0 apply_windowing returns for every sample    *)
(* the integer nearest to 255 * (clip(s) - lo) / width.                    *)
C8_NearestInteger ==
    (call # None /\ call.fn = "apply_windowing" /\ Returned(1)) =>
        \A k \in WindowedSamples :
            2 * Abs(DisplayMax * ClippedOffset2(k)
                      - call.rets[1].value.data[k] * Width2) <= Width2

(* C8 amended: for width > 0 apply_windowing returns for every sample the  *)
(* integer part of 255 * (clip(s) - lo) / width (the fraction is           *)
(* discarded, not rounded); the result lies in 0..255 and is               *)
(* non-decreasing in the sample.                                           *)
C8_IntegerPart ==
    (call # None /\ call.fn = "apply_windowing" /\ Invoked = 1) =>
        /\ Returned(1) <=> call.args[1].window_width > 0
        /\ Returned(1) =>
            /\ call.rets[1].value.shape = call.args[1].pixel_array.shape
            /\ \A k \in WindowedSamples :
                LET r == call.rets[1].value.data[k]
                IN  /\ r \in 0..DisplayMax
                    /\ r * Width2 <= DisplayMax * ClippedOffset2(k)
                    /\ DisplayMax * ClippedOffset2(k) < (r + 1) * Width2
            /\ \A j, k \in WindowedSamples :
                call.args[1].pixel_array.data[j] <= call.args[1].pixel_array.data[k]
                    => call.rets[1].value.data[j] <= call.rets[1].value.data[k]

(* apply_windowing returned a sample whose exact value has a fraction      *)
(* above one half                                                          *)
C8_Witness ==
    /\ call # None /\ call.fn = "apply_windowing" /\ Returned(1)
    /\ \E k \in WindowedSamples :
          2 * (DisplayMax * ClippedOffset2(k) - call.rets[1].value.data[k] * Width2)
              > Width2

(* C9: every record process_dicom_file returns carries one two-dimensional *)
(* frame: the frame at index floor(N/2) of an array with a leading frame   *)
(* axis of size N > 1, and the single frame itself when N <= 1, never an   *)
(* array that still has a frame axis.                                      *)
C9_OneFramePerRecord ==
    (call # None /\ call.fn = "process_dicom_file" /\ Returned(1)
        /\ call.rets[1].err = None) =>
        LET a    == call.args[1].pixel_array
            img  == call.rets[1].result.img
            meta == call.rets[1].result.meta
            size == a.shape[Len(a.shape) - 1] * a.shape[Len(a.shape)]
            n    == IF Len(a.shape) = 3 THEN a.shape[1] ELSE 1
            slope == Float(Getattr(call.args[1], "RescaleSlope", Num(1 * Unit)))
            intercept == Float(Getattr(call.args[1], "RescaleIntercept", Num(0)))
        IN  /\ Len(img.shape) = 2
            /\ img.shape = <<a.shape[Len(a.shape) - 1], a.shape[Len(a.shape)]>>
            /\ img.data = [k \in 1..size |->
                  WindowSample(a.data[(IF n > 1 THEN n \div 2 ELSE 0) * size + k] * slope
                                   + intercept,
                               meta.windowCenter, meta.windowWidth)]

(* C2: two studies of one run whose UIDs and UID hashes differ get         *)
(* distinct directory names, whatever their modality and description.      *)
C2_DistinctDirNames ==
    (call # None /\ call.fn = "study_dir_name" /\ Invoked = 2) =>
        ((/\ call.args[1].study_uid # call.args[2].study_uid
          /\ Md5Hex8(call.args[1].study_uid) # Md5Hex8(call.args[2].study_uid))
            => call.rets[1].value # call.rets[2].value)

====
